---- MODULE Spec2Model ----
(***************************************************************************)
(* Model of the ESDA backend's items surface: the Express application of   *)
(* backend/src/index.js (CORS, rate limiting, JSON parsing, route          *)
(* dispatch, 404 handler, Express's default error handler) and the router  *)
(* of backend/src/routes/items.js (GET / and POST / over prisma.item).     *)
(*                                                                         *)
(* One JavaScript turn is one action: a request runs synchronously from    *)
(* the first middleware to the handler's await; in a later turn the        *)
(* database's answer arrives and the handler resumes and responds.         *)
(*                                                                         *)
(* SeedSpec models the runs of backend/prisma/seed.mjs against the same    *)
(* item table, and PageSpec / PageFairSpec the state of the items page of  *)
(* frontend/app/items/page.tsx (load, create and the mount effect), with   *)
(* the answers of its fetches chosen freely.                               *)
(***************************************************************************)
EXTENDS Integers, Sequences, FiniteSets, Bags, TLC

\* ---------------------------------------------------------------- bounds
MaxInFlight == 2     \* handlers that can be awaiting the database at once
MaxItems == 2        \* rows the item table can hold
MaxClock == 1        \* largest value of the database clock
MaxSeeds == 2        \* runs of the seed script that can be alive at once
MaxLoads == 2        \* calls of the page's load() that can be alive at once
MaxPosts == 2        \* calls of the page's create() that can be alive at once

\* ------------------------------------------------------ program constants
MinTitle == 1        \* z.string().min(1)
MaxTitle == 200      \* z.string().max(200)
SeedTitleLen == 15   \* the length of "Welcome to ESDA"

\* ------------------------------------------------------------ JS values
Undefined == "undefined"

\* A JSON value found under the key "title": absent, a number, or a string
\* (a string is represented by its length, all that the schema looks at;
\* strings of different lengths are different strings).
NoTitle == [type |-> "undefined", len |-> 0]
NumTitle == [type |-> "number", len |-> 0]
Str(n) == [type |-> "string", len |-> n]
TitleLens == {0, MinTitle, MaxTitle, MaxTitle + 1}
TitleValues == {NoTitle, NumTitle} \cup {Str(n) : n \in TitleLens}

\* req.body after express.json(): undefined when no JSON body was sent
\* (Express 5), an array, or an object.
NoBody == [kind |-> "undefined", title |-> NoTitle]
ArrayBody == [kind |-> "array", title |-> NoTitle]
Obj(t) == [kind |-> "object", title |-> t]
Bodies == {NoBody, ArrayBody} \cup {Obj(t) : t \in TitleValues}

\* ------------------------------------------------------------- requests
DefaultOrigin == "http://localhost:3000"
CustomOrigin == "https://app.example.com"
Origins == {Undefined, DefaultOrigin, CustomOrigin}
Verbs == {"GET", "POST", "OPTIONS"}
ItemsPaths == {"/api/items"}
Paths == {"/healthz", "/", "/nope"} \cup ItemsPaths

Requests ==
  {q \in [verb : Verbs, path : Paths, origin : Origins, body : Bodies] :
     /\ q.body # NoBody => (q.verb = "POST" /\ q.path \in ItemsPaths)
     /\ q.verb = "OPTIONS" => q.path \in ItemsPaths}

NoReq == [verb |-> "", path |-> "", origin |-> Undefined, body |-> NoBody]

\* ---------------------------------------------------------------- items
NoItem == [id |-> 0, title |-> NoTitle, createdAt |-> 0 - 1]
Ids == 1..MaxItems

VARIABLES
  env,      \* process.env: FRONTEND_ORIGIN and NODE_ENV
  store,    \* the rows of the item table
  now,      \* the database clock (now())
  pending,  \* the bag of handler invocations suspended on an await of prisma
  resp,     \* the response being written, with the request it answers
  seeds,    \* the runs of prisma/seed.mjs: where each one is in main()
  mounted,  \* ItemsPage: the mount effect has run
  title,    \* ItemsPage: the title state (the input's text)
  posts,    \* ItemsPage: the create() calls awaiting their POST
  loads,    \* ItemsPage: where each load() call is
  items,    \* ItemsPage: the items state (the rows displayed)
  loading   \* ItemsPage: the loading state

\* The state of the items page; the state of the backend and its database.
pageVars == <<mounted, title, posts, loads, items, loading>>
apiVars == <<env, store, now, pending, resp>>

vars == <<env, store, now, pending, resp, seeds, mounted, title, posts, loads, items, loading>>

\* -------------------------------------------------- handlers, responses
\* A handler suspended on an await: the statement it awaits (op) and its
\* request.
Handler(op, q) == [op |-> op, req |-> q]

\* A response with the request it answers: route is the route handler the
\* request was dispatched to ("" when it reached none), handler is the
\* function that wrote the response; text, leak, paths, rows and item are
\* the body (plain text, error detail, the paths of a validation error, the
\* array of a list, the created row).
NoResp ==
  [req |-> NoReq, route |-> "", handler |-> "", status |-> 0, text |-> "", leak |-> "",
   paths |-> {}, rows |-> <<>>, item |-> NoItem]

Resp(q, route, h, st) == [NoResp EXCEPT !.req = q, !.route = route, !.handler = h, !.status = st]

TextResp(q, route, h, st, txt) == [Resp(q, route, h, st) EXCEPT !.text = txt]

\* --------------------------------------------------------- index.js: CORS
\* const allowedOrigins = [process.env.FRONTEND_ORIGIN || "http://localhost:3000"]
Falsy(v) == v \in {Undefined, ""}

allowedOrigins == {IF Falsy(env.FRONTEND_ORIGIN) THEN DefaultOrigin ELSE env.FRONTEND_ORIGIN}

\* Faulty variant: origin: true, every origin is reflected.
CorsOriginAny(origin) == TRUE

\* origin(origin, cb): TRUE is cb(null, true), FALSE is cb(new Error(...))
CorsOrigin(origin) == IF Falsy(origin) THEN TRUE ELSE origin \in allowedOrigins

CorsMessage == "Not allowed by CORS"
PrismaMessage == "Can't reach database server"

\* Express's default error handler (no error middleware is registered):
\* status 500; the body is the status text in production and the error's
\* stack, message included, in any other environment.
FinalHandler(q, route, message) ==
  [Resp(q, route, "errorHandler", 500) EXCEPT
     !.text = "Internal Server Error",
     !.leak = IF env.NODE_ENV = "production" THEN "" ELSE message]

\* ----------------------------------------------------- index.js: routing
\* Faulty variant: the 404 handler registered ahead of the items router.
RouteNotFoundEarly(verb, path) ==
  IF verb = "GET" /\ path = "/healthz" THEN "healthz"
  ELSE IF verb = "GET" /\ path = "/" THEN "welcome"
  ELSE "notFound"

\* Routes in registration order; the 404 handler is last.
Route(verb, path) ==
  IF verb = "GET" /\ path = "/healthz" THEN "healthz"
  ELSE IF verb = "GET" /\ path = "/" THEN "welcome"
  ELSE IF verb = "GET" /\ path \in ItemsPaths THEN "itemsGet"
  ELSE IF verb = "POST" /\ path \in ItemsPaths THEN "itemsPost"
  ELSE "notFound"

\* The middleware chain in front of the routes: cors (which also answers
\* every preflight itself), then the rate limiter, then the routes.
\* limited: this client has used up its 300 requests of the current minute.
Stage(q, limited) ==
  IF ~CorsOrigin(q.origin) THEN "corsError"
  ELSE IF q.verb = "OPTIONS" THEN "preflight"
  ELSE IF limited THEN "rateLimited"
  ELSE Route(q.verb, q.path)

\* ------------------------------------------------- items.js: CreateItem
\* Faulty variant: the schema without .min(1).
CreateItemNoMin(body) ==
  IF body.kind # "object" THEN {""}
  ELSE IF body.title.type # "string" THEN {"title"}
  ELSE IF body.title.len > MaxTitle THEN {"title"}
  ELSE {}

\* z.object({ title: z.string().min(1).max(200) }).safeParse(body): the
\* paths of the issues found ("" is the root); none means success. A body
\* that is not an object fails at the root, before any key is looked at.
CreateItem(body) ==
  IF body.kind # "object" THEN {""}
  ELSE IF body.title.type # "string" THEN {"title"}
  ELSE IF body.title.len < MinTitle \/ body.title.len > MaxTitle THEN {"title"}
  ELSE {}

\* ------------------------------------------------------ prisma.item
Perms(S) == {s \in [1..Cardinality(S) -> S] : \A a, b \in 1..Cardinality(S) : a # b => s[a] # s[b]}

\* Faulty variant: findMany with take: 1.
FindManyTake1(S) ==
  {SubSeq(s, 1, IF S = {} THEN 0 ELSE 1) :
     s \in {t \in Perms(S) : \A k \in 1..(Cardinality(S) - 1) : t[k].createdAt >= t[k + 1].createdAt}}

\* Faulty variant: orderBy createdAt "asc".
FindManyAsc(S) ==
  {s \in Perms(S) : \A k \in 1..(Cardinality(S) - 1) : s[k].createdAt <= s[k + 1].createdAt}

\* findMany({ orderBy: { createdAt: "desc" } }): every row, newest first;
\* the order of rows with equal createdAt is whatever the database picks.
FindMany(S) ==
  {s \in Perms(S) : \A k \in 1..(Cardinality(S) - 1) : s[k].createdAt >= s[k + 1].createdAt}

\* Faulty variant: ids are drawn without regard to the rows that exist.
AnyIds(S) == Ids

\* The id the database gives a new row: one that no row carries. Ids are
\* opaque, so which unused id is taken makes no difference: the smallest is.
FreshIds(S) ==
  LET free == Ids \ {r.id : r \in S} IN {id \in free : \A o \in free : id <= o}

\* Faulty variant: the row is stored with a title cut to one character.
NewItemCutTitle(data, id, t) == [id |-> id, title |-> Str(MinTitle), createdAt |-> t]

\* create({ data }): the stored row.
NewItem(data, id, t) == [id |-> id, title |-> data.title, createdAt |-> t]

\* Faulty variant: the insert replaces the table's rows.
InsertReplace(S, item) == {item}

\* Faulty variant: the insert is acknowledged but no row is written.
InsertLost(S, item) == S

\* The item table after the INSERT.
Insert(S, item) == S \cup {item}

\* ------------------------------------------------------------------ Init
\* The arrays GET /items can answer with, by the ids of their rows: the n
\* rows created so far, newest first.
Desc(n) == [k \in 1..n |-> n + 1 - k]
PageLists == {Desc(n) : n \in 0..MaxItems}

\* What the user can have typed into the title input.
PageTitles == {"", " ", "a"}

\* String.prototype.trim on those.
Trim(t) == IF t = " " THEN "" ELSE t

\* The calls of load() that can be alive at once.  A call is awaiting its
\* fetch ("fetch"), awaiting res.json() of an OK response whose body parses
\* to rows ("json"), or has returned: after setItems ("set"), after a
\* non-OK response ("notOk"), or through its catch ("threw").
LoadCalls == 1..MaxLoads
NoLoad == [stage |-> "none", rows |-> <<>>]
Load(stage, rows) == [stage |-> stage, rows |-> rows]
InFlight(l) == loads[l].stage \in {"fetch", "json"}

\* The processes that can run prisma/seed.mjs.
SeedProcs == 1..MaxSeeds

\* ItemsPage before its first render's effects: the useState initial values,
\* no call of load() or create() made yet.
PageInit ==
  /\ mounted = FALSE
  /\ title = ""
  /\ posts = 0
  /\ loads = [l \in LoadCalls |-> NoLoad]
  /\ items = <<>>
  /\ loading = TRUE

\* Two deployments: nothing set (development defaults), and a production
\* configuration.
Envs ==
  {[FRONTEND_ORIGIN |-> Undefined, NODE_ENV |-> Undefined],
   [FRONTEND_ORIGIN |-> CustomOrigin, NODE_ENV |-> "production"]}

Init ==
  /\ env \in Envs
  /\ store = {}
  /\ now = 0
  /\ pending = EmptyBag
  /\ resp = NoResp
  /\ seeds = [p \in SeedProcs |-> "idle"]
  /\ PageInit

\* --------------------------------------------------------------- actions
\* One JavaScript turn at a time: a turn starts once the response of the
\* turn before it has been written out.
Idle == resp = NoResp

\* cors calls next(err): the request ends in the default error handler.
CorsReject ==
  /\ Idle
  /\ UNCHANGED <<seeds, pageVars>>
  /\ \E q \in Requests, limited \in BOOLEAN :
      /\ Stage(q, limited) = "corsError"
      /\ resp' = FinalHandler(q, "", CorsMessage)
      /\ UNCHANGED <<env, store, now, pending>>

\* cors answers an OPTIONS request itself (preflightContinue is off).
CorsPreflight ==
  /\ Idle
  /\ UNCHANGED <<seeds, pageVars>>
  /\ \E q \in Requests, limited \in BOOLEAN :
      /\ Stage(q, limited) = "preflight"
      /\ resp' = TextResp(q, "", "cors", 204, "")
      /\ UNCHANGED <<env, store, now, pending>>

RateLimited ==
  /\ Idle
  /\ UNCHANGED <<seeds, pageVars>>
  /\ \E q \in Requests, limited \in BOOLEAN :
      /\ Stage(q, limited) = "rateLimited"
      /\ resp' = TextResp(q, "", "rateLimit", 429, "Too many requests, please try again later.")
      /\ UNCHANGED <<env, store, now, pending>>

Healthz ==
  /\ Idle
  /\ UNCHANGED <<seeds, pageVars>>
  /\ \E q \in Requests, limited \in BOOLEAN :
      /\ Stage(q, limited) = "healthz"
      /\ resp' = TextResp(q, "healthz", "healthz", 200, "ok")
      /\ UNCHANGED <<env, store, now, pending>>

Welcome ==
  /\ Idle
  /\ UNCHANGED <<seeds, pageVars>>
  /\ \E q \in Requests, limited \in BOOLEAN :
      /\ Stage(q, limited) = "welcome"
      /\ resp' = TextResp(q, "welcome", "welcome", 200, "Welcome to the ESDA Backend API")
      /\ UNCHANGED <<env, store, now, pending>>

NotFound ==
  /\ Idle
  /\ UNCHANGED <<seeds, pageVars>>
  /\ \E q \in Requests, limited \in BOOLEAN :
      /\ Stage(q, limited) = "notFound"
      /\ resp' = TextResp(q, "", "notFound", 404, "Route not found")
      /\ UNCHANGED <<env, store, now, pending>>

\* r.get("/"): the handler calls findMany and suspends.
ItemsGet ==
  /\ Idle
  /\ UNCHANGED <<seeds, pageVars>>
  /\ \E q \in Requests, limited \in BOOLEAN :
      /\ Stage(q, limited) = "itemsGet"
      /\ BagCardinality(pending) < MaxInFlight
      /\ pending' = pending (+) SetToBag({Handler("findMany", q)})
      /\ UNCHANGED <<env, store, now, resp>>

\* r.post("/"): validation, then 400, or the handler calls create and
\* suspends.
ItemsPost ==
  /\ Idle
  /\ UNCHANGED <<seeds, pageVars>>
  /\ \E q \in Requests, limited \in BOOLEAN :
      /\ Stage(q, limited) = "itemsPost"
      /\ IF CreateItem(q.body) # {}
           THEN /\ resp' = [Resp(q, "itemsPost", "itemsPost", 400) EXCEPT !.paths = CreateItem(q.body)]
                /\ UNCHANGED pending
           ELSE /\ BagCardinality(pending) < MaxInFlight
                /\ pending' = pending (+) SetToBag({Handler("create", q)})
                /\ UNCHANGED resp
      /\ UNCHANGED <<env, store, now>>

\* The database runs the SELECT of a pending findMany; r.get("/") resumes
\* with the rows: res.json(items).
FindManyResolve ==
  /\ Idle
  /\ UNCHANGED <<seeds, pageVars>>
  /\ \E h \in BagToSet(pending) :
      /\ h.op = "findMany"
      /\ \E s \in FindMany(store) :
           resp' = [Resp(h.req, "itemsGet", "itemsGet", 200) EXCEPT !.rows = s]
      /\ pending' = pending (-) SetToBag({h})
      /\ UNCHANGED <<env, store, now>>

\* The database runs the INSERT of a pending create; r.post("/") resumes
\* with the stored row: res.status(201).json(item).
CreateResolve ==
  /\ Idle
  /\ UNCHANGED <<seeds, pageVars>>
  /\ \E h \in BagToSet(pending) :
      /\ h.op = "create"
      /\ Cardinality(store) < MaxItems
      /\ \E id \in FreshIds(store) :
           LET item == NewItem([title |-> h.req.body.title], id, now) IN
             /\ store' = Insert(store, item)
             /\ resp' = [Resp(h.req, "itemsPost", "itemsPost", 201) EXCEPT !.item = item]
      /\ pending' = pending (-) SetToBag({h})
      /\ UNCHANGED <<env, now>>

\* The awaited promise rejects (the database cannot be reached); Express 5
\* passes the rejection of an async handler to next(err).
PrismaReject ==
  /\ Idle
  /\ UNCHANGED <<seeds, pageVars>>
  /\ \E h \in BagToSet(pending) :
      /\ resp' = FinalHandler(h.req, IF h.op = "findMany" THEN "itemsGet" ELSE "itemsPost", PrismaMessage)
      /\ pending' = pending (-) SetToBag({h})
      /\ UNCHANGED <<env, store, now>>

\* The response has been written to the socket.
Flush ==
  /\ resp # NoResp
  /\ resp' = NoResp
  /\ UNCHANGED <<seeds, pageVars>>
  /\ UNCHANGED <<env, store, now, pending>>

\* The database clock advances.
Tick ==
  /\ Idle
  /\ UNCHANGED <<seeds, pageVars>>
  /\ now < MaxClock
  /\ now' = now + 1
  /\ UNCHANGED <<env, store, pending, resp>>

Next ==
  \/ CorsReject
  \/ CorsPreflight
  \/ RateLimited
  \/ Healthz
  \/ Welcome
  \/ NotFound
  \/ ItemsGet
  \/ ItemsPost
  \/ FindManyResolve
  \/ CreateResolve
  \/ PrismaReject
  \/ Flush
  \/ Tick

Spec == Init /\ [][Next]_vars

\* ------------------------------------------------------- prisma/seed.mjs
\* The data of the seed script's create.
SeedData == [title |-> Str(SeedTitleLen)]

\* A row that is not the seed's: created through POST /api/items before the
\* seed script runs.
ApiRow == NewItem([title |-> Str(MinTitle)], 1, 0)

\* The seed script meets an empty table, or a table with one row of the API.
SeedInit ==
  /\ env \in Envs
  /\ store \in {{}, {ApiRow}}
  /\ now = 0
  /\ pending = EmptyBag
  /\ resp = NoResp
  /\ seeds = [p \in SeedProcs |-> "idle"]
  /\ PageInit

\* node prisma/seed.mjs is started: main() runs up to its first await, of
\* prisma.item.count().
SeedStart(p) ==
  /\ seeds[p] \in {"idle", "done", "failed"}
  /\ seeds' = [seeds EXCEPT ![p] = "count"]
  /\ UNCHANGED <<apiVars, pageVars>>

\* main() after the count: create when the table was empty, else log and
\* return.
SeedAfterCount(count) == IF count = 0 THEN "create" ELSE "done"

\* The count is answered and main() resumes.
SeedCountResolve(p) ==
  /\ seeds[p] = "count"
  /\ seeds' = [seeds EXCEPT ![p] = SeedAfterCount(Cardinality(store))]
  /\ UNCHANGED <<apiVars, pageVars>>

\* The create is executed, main() logs and returns.
SeedCreateResolve(p) ==
  /\ seeds[p] = "create"
  /\ Cardinality(store) < MaxItems
  /\ \E id \in FreshIds(store) :
      store' = Insert(store, NewItem(SeedData, id, now))
  /\ seeds' = [seeds EXCEPT ![p] = "done"]
  /\ UNCHANGED <<env, now, pending, resp, pageVars>>

\* A prisma call rejects: main().catch logs and exits with status 1.
SeedReject(p) ==
  /\ seeds[p] \in {"count", "create"}
  /\ seeds' = [seeds EXCEPT ![p] = "failed"]
  /\ UNCHANGED <<apiVars, pageVars>>

SeedNext ==
  \/ \E p \in SeedProcs : SeedStart(p)
  \/ \E p \in SeedProcs : SeedCountResolve(p)
  \/ \E p \in SeedProcs : SeedCreateResolve(p)
  \/ \E p \in SeedProcs : SeedReject(p)
  \/ Tick

SeedSpec == SeedInit /\ [][SeedNext]_vars

\* ================================================================ claims
Range(s) == {s[k] : k \in DOMAIN s}

Occurrences(s, id) == Cardinality({k \in DOMAIN s : s[k].id = id})

ValidTitle(t) == t.type = "string" /\ t.len >= 1 /\ t.len <= 200

\* The title a body submits: the value under "title" of a JSON object.
SubmittedTitle(body) == IF body.kind = "object" THEN body.title ELSE NoTitle

Created(r) == r.route = "itemsPost" /\ r.status = 201

Listed(r) == r.route = "itemsGet" /\ r.status = 200

\* C1: a successful create followed by a list returns the created record
\* exactly once. The row of a 201 response is in the table when the response
\* is written, no later step takes a row out of the table, and the array of
\* a list holds, exactly once by id, every row in the table when the query
\* runs (so every row whose 201 was written before the list was requested).
C1_CreateThenList ==
  [][/\ Created(resp') => (resp'.item \in store' /\ ValidTitle(resp'.item.title))
     /\ \A r \in store : \E n \in store' : n.id = r.id
     /\ Listed(resp') => \A r \in store' : Occurrences(resp'.rows, r.id) = 1]_vars

C1_Witness ==
  /\ Listed(resp)
  /\ \E k \in DOMAIN resp.rows : resp.rows[k].title = Str(200)
  /\ \E k \in DOMAIN resp.rows : resp.rows[k].title = Str(1)

\* C2 as stated: every POST /api/items whose title is missing, not a string,
\* empty or longer than 200 characters is answered 400 with an error that
\* references title.
C2_Original ==
  (resp.route = "itemsPost" /\ ~ValidTitle(SubmittedTitle(resp.req.body)))
    => (resp.status = 400 /\ "title" \in resp.paths)

\* C2 amended: such a request is answered 400 and nothing is persisted or
\* handed to prisma.item.create; the error references title when the body is
\* a JSON object, and is reported at the root when the body is not an object
\* (no JSON body, or an array).
C2_InvalidRejected ==
  [][(resp'.route = "itemsPost" /\ ~ValidTitle(SubmittedTitle(resp'.req.body)))
       => /\ resp'.status = 400
          /\ store' = store
          /\ pending' = pending
          /\ resp'.paths = IF resp'.req.body.kind = "object" THEN {"title"} ELSE {""}]_vars

C2_Witness ==
  /\ resp.route = "itemsPost"
  /\ resp.status = 400
  /\ resp.req.body = Obj(Str(201))
  /\ store # {}

\* C3: a POST /api/items with a title of 1 to 200 characters, when the
\* database answers, gets 201 and the stored record: generated id and
\* createdAt, and the submitted title.
C3_CreatedRecord ==
  (resp.route = "itemsPost" /\ ValidTitle(SubmittedTitle(resp.req.body))
     /\ resp.handler # "errorHandler")
    => /\ resp.status = 201
       /\ resp.item \in store
       /\ resp.item.title = resp.req.body.title
       /\ resp.item.id \in Ids
       /\ resp.item.createdAt \in 0..now

C3_Witness == Created(resp) /\ resp.req.body = Obj(Str(200)) /\ Cardinality(store) = 2

\* C4: GET /api/items, when the database answers, responds 200 with all
\* persisted items, createdAt non-increasing from each element to the next;
\* with no rows the array is empty.
C4_NewestFirst ==
  (resp.route = "itemsGet" /\ resp.handler # "errorHandler")
    => /\ resp.status = 200
       /\ Range(resp.rows) = store
       /\ Len(resp.rows) = Cardinality(store)
       /\ \A k \in 1..(Len(resp.rows) - 1) : resp.rows[k].createdAt >= resp.rows[k + 1].createdAt
       /\ (store = {} => resp.rows = <<>>)

C4_Witness ==
  /\ Listed(resp)
  /\ Len(resp.rows) = 2
  /\ resp.rows[1].createdAt > resp.rows[2].createdAt

\* C5 as stated: a second GET /api/items with no write in between returns
\* the array the first one returned, rows of equal createdAt included: the
\* array just returned is the only one a list of the same table can return.
C5_Idempotent ==
  Listed(resp) => \A s \in FindMany(store) : s = resp.rows

\* C6: no two persisted items share an id.
C6_UniqueIds ==
  \A r1, r2 \in store : r1.id = r2.id => r1 = r2

C6_Witness ==
  /\ Cardinality(store) = 2
  /\ \A r \in store : r.createdAt = 0
  /\ BagCardinality(pending) = 0

\* C7 as stated: when findMany or create fails, the request is answered by
\* a fallback with a generic 500 that carries no error detail, never with
\* 200 or 201.
C7_Generic500 ==
  (resp.route \in {"itemsGet", "itemsPost"} /\ resp.handler = "errorHandler")
    => (resp.status = 500 /\ resp.leak = "")

\* C8: the item table only grows and a stored row never changes: every
\* row stays in the table with the id, title and createdAt it was stored
\* with, and every list returns the rows as they are stored.
C8_OnlyGrows ==
  [][/\ store \subseteq store'
     /\ Listed(resp') => store' \subseteq Range(resp'.rows)]_vars

\* A list answered after a second row was stored at a later time.
C8_Witness ==
  /\ Listed(resp)
  /\ \E r \in store : r.createdAt = 0
  /\ \E r \in store : r.createdAt = 1

\* The origin the deployment is configured with.
ConfiguredOrigin ==
  IF env.FRONTEND_ORIGIN = Undefined THEN "http://localhost:3000" ELSE env.FRONTEND_ORIGIN

\* The request of a response got past the CORS middleware.
PassedCors(r) == ~(r.handler = "errorHandler" /\ r.route = "")

RegisteredRoutes ==
  {<<"GET", "/healthz">>, <<"GET", "/">>, <<"GET", "/api/items">>, <<"POST", "/api/items">>}

\* The request of a response was handed to the routes: it got past the CORS
\* middleware and the rate limiter.
Dispatched(r) == r # NoResp /\ PassedCors(r) /\ r.handler \notin {"cors", "rateLimit"}

\* C10: of the requests handed to the routes, GET /healthz is answered 200
\* "ok" whatever the state of the table, a request whose verb and path match
\* no registered route is answered 404 "Route not found" by the last
\* handler, and a request that matches a registered route never is.
C10_Dispatch ==
  Dispatched(resp) =>
    /\ (resp.req.verb = "GET" /\ resp.req.path = "/healthz")
         => (resp.handler = "healthz" /\ resp.status = 200 /\ resp.text = "ok")
    /\ <<resp.req.verb, resp.req.path>> \notin RegisteredRoutes
         => (resp.handler = "notFound" /\ resp.status = 404 /\ resp.text = "Route not found")
    /\ <<resp.req.verb, resp.req.path>> \in RegisteredRoutes
         => (resp.handler # "notFound" /\ resp.status # 404)

C10_Witness ==
  /\ resp.handler = "healthz"
  /\ Cardinality(store) = 2
  /\ BagCardinality(pending) = 2

\* ------------------------------------------- frontend/app/items/page.tsx
\* load() up to its await of fetch: setLoading(true), the GET is sent.
LoadStart(l) ==
  /\ ~InFlight(l)
  /\ loads' = [loads EXCEPT ![l] = Load("fetch", <<>>)]
  /\ loading' = TRUE
  /\ items' = items

\* The mount effect calls load().
Mount ==
  /\ ~mounted
  /\ mounted' = TRUE
  /\ \E l \in LoadCalls : LoadStart(l)
  /\ UNCHANGED <<title, posts, apiVars, seeds>>

\* The input's onChange; the input is rendered only when loading is false.
TypeTitle ==
  /\ mounted /\ ~loading
  /\ \E t \in PageTitles \ {title} : title' = t
  /\ UNCHANGED <<mounted, posts, loads, items, loading, apiVars, seeds>>

\* create() up to its await of fetch: it returns at once on a blank title,
\* else the POST is sent.
CreateCall ==
  /\ mounted /\ ~loading
  /\ Trim(title) # ""
  /\ posts < MaxPosts
  /\ posts' = posts + 1
  /\ UNCHANGED <<mounted, title, loads, items, loading, apiVars, seeds>>

\* The POST resolves OK: setTitle(""), and load() is called, not awaited.
CreateOk ==
  /\ posts > 0
  /\ posts' = posts - 1
  /\ title' = ""
  /\ \E l \in LoadCalls : LoadStart(l)
  /\ UNCHANGED <<mounted, apiVars, seeds>>

\* The POST resolves non-OK or rejects: an alert, no state is set.
CreateFail ==
  /\ posts > 0
  /\ posts' = posts - 1
  /\ UNCHANGED <<mounted, title, loads, items, loading, apiVars, seeds>>

\* Faulty variant: setLoading(false) at the end of the try block instead
\* of in a finally.
FinallyOnSuccess(how) == IF how = "set" THEN FALSE ELSE loading

\* finally { setLoading(false) }, however the try block was left.
Finally(how) == FALSE

\* The call returns: how it left the try block, then the finally.
LoadReturn(l, how) ==
  /\ loads' = [loads EXCEPT ![l] = Load(how, <<>>)]
  /\ loading' = Finally(how)

\* The GET resolves with an OK response: res.json() is awaited.
LoadFetchOk(l) ==
  /\ loads[l].stage = "fetch"
  /\ \E rows \in PageLists : loads' = [loads EXCEPT ![l] = Load("json", rows)]
  /\ UNCHANGED <<mounted, title, posts, items, loading, apiVars, seeds>>

\* The GET resolves with a response that is not OK: the if is skipped.
LoadFetchNotOk(l) ==
  /\ loads[l].stage = "fetch"
  /\ LoadReturn(l, "notOk")
  /\ UNCHANGED <<mounted, title, posts, items, apiVars, seeds>>

\* The GET rejects: the catch logs.
LoadFetchThrow(l) ==
  /\ loads[l].stage = "fetch"
  /\ LoadReturn(l, "threw")
  /\ UNCHANGED <<mounted, title, posts, items, apiVars, seeds>>

\* res.json() resolves: setItems.
LoadJsonOk(l) ==
  /\ loads[l].stage = "json"
  /\ items' = loads[l].rows
  /\ LoadReturn(l, "set")
  /\ UNCHANGED <<mounted, title, posts, apiVars, seeds>>

\* res.json() rejects (the body is not JSON): the catch logs.
LoadJsonThrow(l) ==
  /\ loads[l].stage = "json"
  /\ LoadReturn(l, "threw")
  /\ UNCHANGED <<mounted, title, posts, items, apiVars, seeds>>

\* A promise call l awaits settles and the call resumes.
LoadSettle(l) ==
  \/ LoadFetchOk(l)
  \/ LoadFetchNotOk(l)
  \/ LoadFetchThrow(l)
  \/ LoadJsonOk(l)
  \/ LoadJsonThrow(l)

PageNext ==
  \/ Mount
  \/ TypeTitle
  \/ CreateCall
  \/ CreateOk
  \/ CreateFail
  \/ \E l \in LoadCalls : LoadFetchOk(l)
  \/ \E l \in LoadCalls : LoadFetchNotOk(l)
  \/ \E l \in LoadCalls : LoadFetchThrow(l)
  \/ \E l \in LoadCalls : LoadJsonOk(l)
  \/ \E l \in LoadCalls : LoadJsonThrow(l)

PageSpec == Init /\ [][PageNext]_vars

\* Every promise a call of load() awaits settles (the browser resolves or
\* rejects each fetch and each body read), and the event loop then resumes
\* the call.
PageFairness == \A l \in LoadCalls : WF_vars(LoadSettle(l))

PageFairSpec == PageSpec /\ PageFairness

\* ------------------------------------------------------------------ C11
\* The rows the seed script inserted, and the rows of the API.
SeededRows == {r \in store : r.title = SeedData.title}
SeedsEnded == \A p \in SeedProcs : seeds[p] \in {"idle", "done", "failed"}

\* C11: the seed script is idempotent.  On a table that held no row before
\* the first seed run there is never more than one seeded row, and exactly
\* one once the runs have ended and one of them has returned normally; a
\* run whose count finds the table non-empty ends without inserting.
C11_SeedIdempotent ==
  /\ [](store = SeededRows =>
          /\ Cardinality(SeededRows) <= 1
          /\ (SeedsEnded /\ \E p \in SeedProcs : seeds[p] = "done")
                => Cardinality(SeededRows) = 1)
  /\ [][\A p \in SeedProcs :
          (seeds[p] = "count" /\ seeds'[p] # "count" /\ store # {})
            => (store' = store /\ seeds'[p] \in {"done", "failed"})]_vars
\* ------------------------------------------------------------------ C12
\* The POST handlers awaiting their create.
Creates(B) == {h \in BagToSet(B) : h.op = "create"}

\* C12: requests are independent under interleaving.  Whatever else is in
\* flight, a step writes a 201 exactly when it adds a row; it then ends one
\* awaiting POST, adds that one row and no other, under an id no stored row
\* has and with the title of that POST, and returns it in the 201; and an
\* awaiting POST leaves only through its own 201 or 500, so that the POSTs
\* answered 201 and the rows added are the same in number.
C12_Independent ==
  [][/\ Created(resp') <=> store' # store
     /\ Created(resp') =>
          /\ \E h \in Creates(pending) :
               /\ h.req = resp'.req
               /\ pending' = pending (-) SetToBag({h})
          /\ resp'.item \notin store
          /\ store' = store \cup {resp'.item}
          /\ \A r \in store : r.id # resp'.item.id
          /\ resp'.item.title = resp'.req.body.title
     /\ \A h \in Creates(pending) :
          CopiesIn(h, pending') < CopiesIn(h, pending)
            => /\ resp'.req = h.req
               /\ resp'.status \in {201, 500}
               /\ CopiesIn(h, pending') = CopiesIn(h, pending) - 1]_vars

\* A second POST is answered 201 with its row while a GET is in flight.
C12_Witness ==
  /\ Created(resp)
  /\ Cardinality(store) = 2
  /\ \E h \in BagToSet(pending) : h.op = "findMany"
\* ------------------------------------------------------------------ C13
\* C13: every call of load() eventually sets loading to false, whether its
\* fetch resolves OK, resolves non-OK or throws.  Once mounted, the page
\* has loading false whenever no call of load() is in flight; the step in
\* which a call returns sets loading to false, and leaves items as they
\* were when the call returns for a non-OK response or through its catch;
\* and every call in flight comes to return.
C13_LoadSettles ==
  /\ []((mounted /\ \A l \in LoadCalls : ~InFlight(l)) => ~loading)
  /\ [][\A l \in LoadCalls :
          (InFlight(l) /\ loads'[l].stage \notin {"fetch", "json"})
            => /\ loading' = FALSE
               /\ loads'[l].stage \in {"notOk", "threw"} => items' = items]_vars
  /\ \A l \in LoadCalls : InFlight(l) ~> (~InFlight(l) /\ ~loading)

\* Rows are displayed, no call is in flight, and the last calls returned
\* for a non-OK response and through the catch.
C13_Witness ==
  /\ mounted /\ ~loading
  /\ items # <<>>
  /\ \A l \in LoadCalls : ~InFlight(l)
  /\ \E l \in LoadCalls : loads[l].stage = "notOk"
  /\ \E l \in LoadCalls : loads[l].stage = "threw"
====
